---- MODULE Spec2Model ----
(***************************************************************************)
(* ABACOM USB relayboard driver (abacomrelay.c).                           *)
(*                                                                         *)
(* State: the usb_relayboard objects (kref, mutex, relay_states,           *)
(* interface), the interface's driver data and minor registration, the     *)
(* open files with their file_additions, and the position of every         *)
(* system call that is in flight.  One action per handler; a write is      *)
(* split at its blocking points (down, each usb_bulk_msg, up) and a        *)
(* disconnect at down and kref_put, so that calls on different threads     *)
(* interleave as the kernel lets them.                                     *)
(*                                                                         *)
(* relayboard_open is one step: the USB core calls a class driver's open   *)
(* with its minor table read-locked and usb_deregister_dev write-locks     *)
(* that table, so no open runs across line 213.                            *)
(***************************************************************************)
EXTENDS Integers, Sequences, FiniteSets, TLC

\* ---------------------------------------------------------------- bounds
\* usb_relayboard objects ever allocated by probe
MaxDev == 2
\* probes that allocate a usb_relayboard in the lifecycle specification
MaxAttach == 1
\* struct file slots (concurrently open handles), one user thread each
MaxHandles == 2
\* cap on kref, which relayboard_open can raise without bound
MaxKref == 3
\* width of unsigned long (jiffies) in bits
LongBits == 3
\* timer ticks per second
HZ == 4

\* ------------------------------------------------------------- constants
RELAY_CMD_LENGTH == 11
RELAY_READ_FREQ_MAX == HZ \div 2
ULONG_MAX == 2^LongBits - 1

DevIds == 1..MaxDev
Handles == 1..MaxHandles
NULL == 0

\* char codes
NL == 10
Ch0 == 48
IsDigit(c) == c >= Ch0 /\ c <= Ch0 + 9

\* write(2) buffers offered by callers: "5", "300\n"
WriteInputs == { <<53>>, <<51, 48, 48, 10>> }
\* jiffies values sampled by read(2)
TimeStamps == {0, RELAY_READ_FREQ_MAX}
\* read(2) calls: the caller's buffer size, jiffies at entry, whether the buffer is writable
ReadCalls == { [count |-> 3, timestamp |-> 0, fault |-> FALSE],
               [count |-> 4, timestamp |-> RELAY_READ_FREQ_MAX, fault |-> TRUE] }
             \cup { [count |-> 4, timestamp |-> t, fault |-> FALSE] : t \in TimeStamps }

\* usb_bulk_msg results: complete, error, short transfer
BulkOutcomes == { [rc |-> 0, actual_length |-> RELAY_CMD_LENGTH],
                  [rc |-> 1, actual_length |-> 0],
                  [rc |-> 0, actual_length |-> RELAY_CMD_LENGTH - 1] }

VARIABLES
    devst,          \* [DevIds -> "none" | "live" | "freed"]  kzalloc / kfree of the usb_relayboard
    kref,           \* [DevIds -> Nat]        dev->kref
    mutex,          \* [DevIds -> 0..1]       dev->mutex, a semaphore initialised to 1
    relay_states,   \* [DevIds -> 0..255]     dev->relay_states
    dev_interface,  \* [DevIds -> BOOLEAN]    dev->interface != NULL
    intfdata,       \* NULL or a device       usb_get_intfdata(interface)
    minor,          \* BOOLEAN                the interface has a registered minor
    hub,            \* position of the USB core's thread for this interface
    file,           \* [Handles -> file]      struct file and its file_additions
    wr,             \* [Handles -> frame]     locals of the relayboard_write in flight
    wire,           \* [DevIds -> Seq]        frames handed to usb_bulk_msg since the bus was idle
    ret,            \* what the last step returned to its caller
    lastOK,         \* [DevIds -> 0..255]     mask of the last write that returned success
    last27,         \* [DevIds -> 0..255]     mask of the commit whose 27th frame completed last
    uaf,            \* BOOLEAN                a handler dereferenced a kfree'd usb_relayboard
    jiffies,        \* 0..ULONG_MAX           the kernel's tick counter
    since           \* [Handles -> Seq]       <<n>>: n ticks went by since the handle's last read
                    \*                        that reached line 367; <<>>: none since its open

vars == <<devst, kref, mutex, relay_states, dev_interface, intfdata, minor, hub,
          file, wr, wire, ret, lastOK, last27, uaf, jiffies, since>>

\* the clock and what is measured against it
clock == <<jiffies, since>>

\* op: the handler ("read_eof": a read that returned before line 362, "write_reject": a
\* write that returned before line 286); err: "OK" or the errno; val: the count returned;
\* data: the bytes a read copied out, the frames a write handed to usb_bulk_msg
NoRet == [op |-> "none", h |-> 0, err |-> "OK", val |-> 0, data |-> <<>>]
Ret(op, h, err, val, data) == [op |-> op, h |-> h, err |-> err, val |-> val, data |-> data]

ClosedFile == [open |-> FALSE, device |-> NULL, last_call |-> 0]
\* pc: where the write stands; status, mask: locals of relayboard_send_status; sub: which
\* frame of a relay's three; rc: its return value; pre: dev->relay_states when the
\* mutex was taken; buf: the bytes the caller offered
IdleWrite == [pc |-> "idle", status |-> 0, mask |-> 0, sub |-> 0, rc |-> 0,
              count |-> 0, pre |-> 0, buf |-> <<>>]

\* ------------------------------------------------------------ pure helpers
\* x & m for a single-bit m
BitSet(x, m) == (x \div m) % 2 = 1

RECURSIVE strtoul_from(_, _, _)
strtoul_from(s, i, acc) ==
    IF i > Len(s) \/ ~IsDigit(s[i]) THEN acc
    ELSE strtoul_from(s, i + 1, acc * 10 + (s[i] - Ch0))

\* simple_strtoul(s, NULL, 10): the value of the leading decimal digits of the memory
\* at s (the values parsed here stay below 2^32, so that unsigned long never wraps)
simple_strtoul(s) == strtoul_from(s, 1, 0)

\* (__u8) x
U8(x) == x % 256

\* kzalloc(count) hands out an object of the smallest kmalloc cache that holds count
\* bytes, all of it zeroed
KmallocSizes == {8, 16, 32, 64}
kmalloc_size(count) ==
    CHOOSE k \in KmallocSizes : k >= count /\ \A j \in KmallocSizes : j >= count => k <= j

\* What follows the object in memory when the caller's bytes fill it: not a digit,
\* or a digit and then none. A shorter buffer ends in the object's own zero bytes
HeapBeyond(buf) ==
    IF Len(buf) < kmalloc_size(Len(buf)) THEN { <<0>> } ELSE { <<0>>, <<55, 0>> }

\* The memory simple_strtoul walks from local_buffer on (lines 275-284): the count
\* bytes copied from the caller, the rest of the zeroed object, then whatever lies
\* behind it; no terminator is appended
local_buffer(buf, beyond) ==
    buf \o [i \in 1..(kmalloc_size(Len(buf)) - Len(buf)) |-> 0] \o beyond

\* line 284: user_data
user_data(buf, beyond) == U8(simple_strtoul(local_buffer(buf, beyond)))

RECURSIVE Digits(_)
Digits(n) == IF n < 10 THEN <<Ch0 + n>> ELSE Append(Digits(n \div 10), Ch0 + (n % 10))

\* snprintf(state_str, sizeof(state_str), "%d\n", v): at most size-1 chars are kept
snprintf_state(v, size) ==
    LET full == Append(Digits(v), NL)
    IN  IF Len(full) <= size - 1 THEN full ELSE SubSeq(full, 1, size - 1)

\* line 355 without its "+ 1"
time_passed_short(last_call, timestamp) ==
    IF last_call > timestamp
    THEN (ULONG_MAX - last_call + timestamp) % (ULONG_MAX + 1)
    ELSE timestamp - last_call

\* jiffies arithmetic of relayboard_read, in unsigned long
time_passed(last_call, timestamp) ==
    IF last_call > timestamp
    THEN (ULONG_MAX - last_call + timestamp + 1) % (ULONG_MAX + 1)
    ELSE timestamp - last_call

\* ------------------------------------------------------------------ kref
\* A handler dereferences device d
Touch(d) == uaf' = (uaf \/ devst[d] # "live")

Init ==
    /\ devst = [d \in DevIds |-> "none"]
    /\ kref = [d \in DevIds |-> 0]
    /\ mutex = [d \in DevIds |-> 0]
    /\ relay_states = [d \in DevIds |-> 0]
    /\ dev_interface = [d \in DevIds |-> FALSE]
    /\ intfdata = NULL
    /\ minor = FALSE
    /\ hub = [pc |-> "unbound", dev |-> NULL]
    /\ file = [h \in Handles |-> ClosedFile]
    /\ wr = [h \in Handles |-> IdleWrite]
    /\ wire = [d \in DevIds |-> <<>>]
    /\ ret = NoRet
    /\ lastOK = [d \in DevIds |-> 0]
    /\ last27 = [d \in DevIds |-> 0]
    /\ uaf = FALSE
    /\ jiffies = 0
    /\ since = [h \in Handles |-> <<>>]

\* ------------------------------------------------ semaphore and reference
\* down that does not wait for the count
down_nowait(d) == mutex' = [mutex EXCEPT ![d] = 0]

\* down(&dev->mutex): blocks until the count is positive, then takes it
down(d) == mutex[d] > 0 /\ mutex' = [mutex EXCEPT ![d] = @ - 1]

\* an up that leaves the count where it is
up_lost(d) == mutex' = mutex

\* up(&dev->mutex)
up(d) == mutex' = [mutex EXCEPT ![d] = @ + 1]

\* kref_put(&dev->kref, relayboard_free): at zero relayboard_free kfrees the object,
\* whose fields are gone with it
kref_put(d) ==
    LET freed == kref[d] - 1 = 0 IN
    /\ kref' = [kref EXCEPT ![d] = @ - 1]
    /\ devst' = IF freed THEN [devst EXCEPT ![d] = "freed"] ELSE devst
    /\ mutex' = IF freed THEN [mutex EXCEPT ![d] = 0] ELSE mutex
    /\ relay_states' = IF freed THEN [relay_states EXCEPT ![d] = 0] ELSE relay_states
    /\ dev_interface' = IF freed THEN [dev_interface EXCEPT ![d] = FALSE] ELSE dev_interface
    /\ lastOK' = IF freed THEN [lastOK EXCEPT ![d] = 0] ELSE lastOK
    /\ last27' = IF freed THEN [last27 EXCEPT ![d] = 0] ELSE last27

\* a kref_get that was left out
kref_get_forgotten(d) == kref' = kref

\* kref_get(&dev->kref)
kref_get(d) == kref' = [kref EXCEPT ![d] = @ + 1]

\* a probe that takes up again the object of a board that was disconnected
NextDev_revive ==
    IF \E d \in DevIds : devst[d] = "live" /\ ~dev_interface[d]
    THEN CHOOSE d \in DevIds : devst[d] = "live" /\ ~dev_interface[d]
    ELSE CHOOSE d \in DevIds : devst[d] = "none"

\* the next usb_relayboard kzalloc would hand out
NextDev == CHOOSE d \in DevIds : devst[d] = "none" /\ \A e \in DevIds : devst[e] = "none" => d <= e

\* usb_relayboard objects allocated so far
Allocated == Cardinality({d \in DevIds : devst[d] # "none"})

OpenOn(d) == {h \in Handles : file[h].open /\ file[h].device = d}

\* handles whose write holds d's mutex
Committing(d) == {h \in OpenOn(d) : wr[h].pc \in {"head", "bit", "tail", "up"}}

\* -------------------------------------------------------- attach / detach
\* a failed registration that leaves the new object referenced and in place
probe_unwind_missing(d) ==
    /\ devst' = [devst EXCEPT ![d] = "live"]
    /\ kref' = [kref EXCEPT ![d] = 1]
    /\ intfdata' = d

\* lines 193-194 after kref_init and usb_set_intfdata (185, 189): the interface data
\* is cleared and the only reference dropped, which frees the object
probe_unwind(d) ==
    /\ devst' = [devst EXCEPT ![d] = "freed"]
    /\ kref' = [kref EXCEPT ![d] = 0]
    /\ intfdata' = NULL

\* relayboard_probe. match: the descriptor passes the heuristic of lines 168-175;
\* nomem: kzalloc fails; regfail: usb_register_dev fails
relayboard_probe(match, nomem, regfail) ==
    /\ hub.pc = "unbound"
    /\ \E d \in DevIds : devst[d] = "none"
    /\ LET d == NextDev IN
       IF ~match THEN
            /\ ret' = Ret("probe", 0, "ENODEV", 0, <<>>)
            /\ UNCHANGED <<devst, kref, mutex, relay_states, dev_interface, intfdata, minor, hub>>
       ELSE IF nomem THEN
            /\ ret' = Ret("probe", 0, "ENOMEM", 0, <<>>)
            /\ UNCHANGED <<devst, kref, mutex, relay_states, dev_interface, intfdata, minor, hub>>
       ELSE IF regfail THEN
            \* lines 180-189, then 193-194: the last reference is dropped
            /\ probe_unwind(d)
            /\ UNCHANGED <<mutex, relay_states, dev_interface>>
            /\ ret' = Ret("probe", 0, "EREGISTER", 0, <<>>)
            /\ UNCHANGED <<minor, hub>>
       ELSE
            /\ devst' = [devst EXCEPT ![d] = "live"]
            /\ kref' = [kref EXCEPT ![d] = 1]
            /\ mutex' = [mutex EXCEPT ![d] = 1]
            /\ relay_states' = [relay_states EXCEPT ![d] = 0]
            /\ dev_interface' = [dev_interface EXCEPT ![d] = TRUE]
            /\ intfdata' = d
            /\ minor' = TRUE
            /\ hub' = [pc |-> "bound", dev |-> d]
            /\ ret' = Ret("probe", 0, "OK", 0, <<>>)
    /\ UNCHANGED <<file, wr, wire, lastOK, last27, uaf>>
    /\ UNCHANGED clock

\* relayboard_disconnect, line 206: the USB core calls it once for a bound interface
disconnect_enter ==
    /\ hub.pc = "bound"
    /\ hub' = [pc |-> "disc_down", dev |-> intfdata]
    /\ ret' = NoRet
    /\ UNCHANGED <<devst, kref, mutex, relay_states, dev_interface, intfdata, minor,
                   file, wr, wire, lastOK, last27, uaf>>
    /\ UNCHANGED clock

\* a disconnect that goes on to line 212 without taking the mutex
disconnect_down_no_wait ==
    /\ hub.pc = "disc_down"
    /\ hub' = [hub EXCEPT !.pc = "disc_locked"]
    /\ ret' = NoRet
    /\ UNCHANGED <<devst, kref, mutex, relay_states, dev_interface, intfdata, minor,
                   file, wr, wire, lastOK, last27, uaf>>
    /\ UNCHANGED clock

\* line 211
disconnect_down ==
    /\ hub.pc = "disc_down"
    /\ down(hub.dev)
    /\ Touch(hub.dev)
    /\ hub' = [hub EXCEPT !.pc = "disc_locked"]
    /\ ret' = NoRet
    /\ UNCHANGED <<devst, kref, relay_states, dev_interface, intfdata, minor,
                   file, wr, wire, lastOK, last27>>
    /\ UNCHANGED clock

\* a disconnect that clears dev->interface and leaves the interface data and minor in place
disconnect_invalidate_stale(d) ==
    /\ dev_interface' = [dev_interface EXCEPT ![d] = FALSE]
    /\ UNCHANGED <<intfdata, minor>>

\* lines 212-214: the session is invalidated
disconnect_invalidate(d) ==
    /\ intfdata' = NULL
    /\ minor' = FALSE
    /\ dev_interface' = [dev_interface EXCEPT ![d] = FALSE]

\* lines 212-215
disconnect_deregister ==
    /\ hub.pc = "disc_locked"
    /\ disconnect_invalidate(hub.dev)
    /\ up(hub.dev)
    /\ hub' = [hub EXCEPT !.pc = "disc_put"]
    /\ ret' = NoRet
    /\ UNCHANGED <<devst, kref, relay_states, file, wr, wire, lastOK, last27, uaf>>
    /\ UNCHANGED clock

\* line 217
disconnect_put ==
    /\ hub.pc = "disc_put"
    /\ kref_put(hub.dev)
    /\ Touch(hub.dev)
    /\ hub' = [pc |-> "unbound", dev |-> NULL]
    /\ ret' = Ret("disconnect", 0, "OK", 0, <<>>)
    /\ UNCHANGED <<intfdata, minor, file, wr, wire>>
    /\ UNCHANGED clock

\* ------------------------------------------------------------ open / close
\* relayboard_open on a free struct file. nomem: kzalloc of file_additions fails
relayboard_open(h, nomem) ==
    /\ ~file[h].open
    /\ IF ~minor THEN
            \* usb_find_interface finds nothing
            /\ ret' = Ret("open", h, "ENODEV", 0, <<>>)
            /\ UNCHANGED <<kref, file, uaf>>
       ELSE IF intfdata = NULL THEN
            /\ ret' = Ret("open", h, "ENODEV", 0, <<>>)
            /\ UNCHANGED <<kref, file, uaf>>
       ELSE
            /\ kref[intfdata] < MaxKref
            /\ kref_get(intfdata)
            /\ Touch(intfdata)
            /\ IF nomem THEN
                    /\ ret' = Ret("open", h, "ENOMEM", 0, <<>>)
                    /\ UNCHANGED file
               ELSE
                    /\ file' = [file EXCEPT ![h] =
                                  [open |-> TRUE, device |-> intfdata, last_call |-> 0]]
                    /\ ret' = Ret("open", h, "OK", 0, <<>>)
    /\ UNCHANGED <<devst, mutex, relay_states, dev_interface, intfdata, minor, hub,
                   wr, wire, lastOK, last27>>

\* relayboard_close: release of a struct file with no call in flight
relayboard_close(h) ==
    /\ file[h].open
    /\ wr[h].pc = "idle"
    /\ LET d == file[h].device IN
       IF d = NULL THEN
            /\ ret' = Ret("close", h, "ENODEV", 0, <<>>)
            /\ UNCHANGED <<kref, devst, mutex, relay_states, dev_interface, lastOK, last27,
                           file, uaf>>
       ELSE
            /\ kref_put(d)
            /\ Touch(d)
            /\ file' = [file EXCEPT ![h] = ClosedFile]
            /\ ret' = Ret("close", h, "OK", 0, <<>>)
    /\ UNCHANGED <<intfdata, minor, hub, wr, wire>>

\* ------------------------------------------------------------------ write
\* "relay off" sent as 0x00 0x08 0x08
relay_cmd_off_typo(status, mask, sub) ==
    IF BitSet(status, mask)
    THEN (IF sub = 1 THEN 40 ELSE 32)
    ELSE (IF sub = 0 THEN 0 ELSE 8)

\* The payload of the frame relayboard_send_status sends for one relay:
\* the sub-th frame of "relay on" (0x20 0x28 0x20) or "relay off" (0x00 0x08 0x00)
relay_cmd(status, mask, sub) ==
    IF BitSet(status, mask)
    THEN (IF sub = 1 THEN 40 ELSE 32)
    ELSE (IF sub = 1 THEN 8 ELSE 0)

\* The payload relayboard_send_status sends next
next_cmd(w) ==
    CASE w.pc = "head" -> 0
      [] w.pc = "bit"  -> relay_cmd(w.status, w.mask, w.sub)
      [] w.pc = "tail" -> (IF w.sub = 0 THEN 0 ELSE 1)

\* send_relay_cmd that does not compare actual_length
send_relay_cmd_any_length(out) == IF out.rc # 0 THEN 1 ELSE 0

\* send_relay_cmd's return value (nonzero: failure) for a usb_bulk_msg result
send_relay_cmd(out) ==
    IF out.rc # 0 THEN 1
    ELSE (IF out.actual_length # RELAY_CMD_LENGTH THEN 1 ELSE 0)

\* relayboard_send_status after a send_relay_cmd returned r: goto error, or go on
send_status_next(w, r) ==
    IF r # 0 THEN [w EXCEPT !.pc = "up", !.rc = 1]
    ELSE CASE w.pc = "head" -> [w EXCEPT !.pc = "bit", !.mask = 128, !.sub = 0]
           [] w.pc = "bit" /\ w.sub < 2 -> [w EXCEPT !.sub = @ + 1]
           [] w.pc = "bit" /\ w.sub = 2 /\ w.mask \div 2 > 0 ->
                    [w EXCEPT !.mask = @ \div 2, !.sub = 0]
           [] w.pc = "bit" /\ w.sub = 2 /\ w.mask \div 2 = 0 ->
                    [w EXCEPT !.pc = "tail", !.mask = 0, !.sub = 0]
           [] w.pc = "tail" /\ w.sub = 0 -> [w EXCEPT !.sub = 1]
           [] w.pc = "tail" /\ w.sub = 1 -> [w EXCEPT !.pc = "up", !.rc = 0, !.sub = 0]

\* line 316 moved before the first frame
remember_status_early(old, w, n) ==
    IF w.pc = "head" THEN w.status ELSE old

\* line 316 moved behind the error label
remember_status_always(old, w, n) ==
    IF n.pc = "up" THEN w.status ELSE old

\* dev->relay_states after the step from w to n: line 316 runs on the success path only
remember_status(old, w, n) ==
    IF n.pc = "up" /\ n.rc = 0 THEN w.status ELSE old

\* relayboard_write, lines 273-285. fail: kzalloc or copy_from_user fails
write_enter(h, buf, fail) ==
    /\ file[h].open
    /\ wr[h].pc = "idle"
    /\ IF fail = "nomem" THEN
            ret' = Ret("write_reject", h, "ENOMEM", 0, <<>>) /\ UNCHANGED wr
       ELSE IF fail = "fault" THEN
            ret' = Ret("write_reject", h, "EFAULT", 0, <<>>) /\ UNCHANGED wr
       ELSE
            /\ \E beyond \in HeapBeyond(buf) :
                    wr' = [wr EXCEPT ![h] = [IdleWrite EXCEPT
                            !.pc = "down",
                            !.status = user_data(buf, beyond),
                            !.count = Len(buf),
                            !.buf = buf]]
            /\ ret' = NoRet
    /\ UNCHANGED <<devst, kref, mutex, relay_states, dev_interface, intfdata, minor, hub,
                   file, wire, lastOK, last27, uaf>>
    /\ UNCHANGED clock

\* line 286
write_down(h) ==
    /\ wr[h].pc = "down"
    /\ LET d == file[h].device IN
        /\ down(d)
        /\ Touch(d)
        /\ wr' = [wr EXCEPT ![h].pc = "head", ![h].pre = relay_states[d]]
    /\ ret' = NoRet
    /\ UNCHANGED <<devst, kref, relay_states, dev_interface, intfdata, minor, hub,
                   file, wire, lastOK, last27>>
    /\ UNCHANGED clock

\* One send_relay_cmd of relayboard_send_status (lines 298-317), usb_bulk_msg ending in out
send_frame(h, out) ==
    /\ wr[h].pc \in {"head", "bit", "tail"}
    /\ LET d == file[h].device
           w == wr[h]
           n == send_status_next(w, send_relay_cmd(out))
       IN
        /\ wire' = [wire EXCEPT ![d] = Append(@,
                        [h |-> h, cmd |-> next_cmd(w),
                         ok |-> out.rc = 0 /\ out.actual_length = RELAY_CMD_LENGTH])]
        /\ wr' = [wr EXCEPT ![h] = n]
        /\ relay_states' = [relay_states EXCEPT ![d] = remember_status(@, w, n)]
        /\ last27' = [last27 EXCEPT ![d] =
                        IF w.pc = "tail" /\ w.sub = 1 /\ out.rc = 0
                           /\ out.actual_length = RELAY_CMD_LENGTH
                        THEN w.status ELSE @]
        /\ Touch(d)
    /\ ret' = NoRet
    /\ UNCHANGED <<devst, kref, mutex, dev_interface, intfdata, minor, hub, file, lastOK>>
    /\ UNCHANGED clock

\* lines 287-291
write_up(h) ==
    /\ wr[h].pc = "up"
    /\ LET d == file[h].device
           w == wr[h]
       IN
        /\ up(d)
        /\ Touch(d)
        /\ ret' = IF w.rc # 0 THEN Ret("write", h, "EFAULT", 0, wire[d])
                  ELSE Ret("write", h, "OK", w.count, wire[d])
        /\ lastOK' = [lastOK EXCEPT ![d] = IF w.rc = 0 THEN w.status ELSE @]
        /\ wire' = [wire EXCEPT ![d] = IF Committing(d) = {h} THEN <<>> ELSE @]
        /\ wr' = [wr EXCEPT ![h] = IdleWrite]
    /\ UNCHANGED <<devst, kref, relay_states, dev_interface, intfdata, minor, hub,
                   file, last27>>
    /\ UNCHANGED clock

\* ------------------------------------------------------------------- read
\* a throttle that also turns away a read exactly RELAY_READ_FREQ_MAX ticks later
throttled_inclusive(last_call, timestamp) ==
    time_passed(last_call, timestamp) <= RELAY_READ_FREQ_MAX

\* line 359: the read comes too soon after last_call
throttled(last_call, timestamp) ==
    time_passed(last_call, timestamp) < RELAY_READ_FREQ_MAX

\* one last_call for all the files of a device
stamp_per_device(f, h, timestamp) ==
    [g \in DOMAIN f |-> IF f[g].open /\ f[g].device = f[h].device
                        THEN [f[g] EXCEPT !.last_call = timestamp] ELSE f[g]]

\* line 367: infos->last_call = timestamp, in the file_additions of this file
stamp(f, h, timestamp) == [f EXCEPT ![h].last_call = timestamp]

\* relayboard_read. count: the caller's buffer size; timestamp: jiffies at entry;
\* fault: copy_to_user cannot write the caller's buffer
relayboard_read(h, count, timestamp, fault) ==
    /\ file[h].open
    /\ wr[h].pc = "idle"
    /\ LET d == file[h].device IN
       IF count < 4 THEN
            /\ ret' = Ret("read_eof", h, "OK", 0, <<>>)
            /\ UNCHANGED <<file, mutex, uaf>>
       ELSE IF throttled(file[h].last_call, timestamp) THEN
            /\ ret' = Ret("read_eof", h, "OK", 0, <<>>)
            /\ UNCHANGED <<file, mutex, uaf>>
       ELSE
            \* lines 363-368: down ... up with nothing blocking in between
            /\ mutex[d] > 0
            /\ Touch(d)
            /\ LET state_str == snprintf_state(relay_states[d], 5)
                   n == IF fault THEN 0 ELSE Len(state_str)
               IN  ret' = Ret("read", h, "OK", n, SubSeq(state_str, 1, n))
            /\ file' = stamp(file, h, timestamp)
            /\ UNCHANGED mutex
    /\ UNCHANGED <<devst, kref, relay_states, dev_interface, intfdata, minor, hub,
                   wr, wire, lastOK, last27>>

\* ------------------------------------------- write as one step of its thread
OkOutcome == [rc |-> 0, actual_length |-> RELAY_CMD_LENGTH]

\* One send_relay_cmd of a relayboard_send_status that runs undisturbed: the
\* failAt-th usb_bulk_msg (if any) ends in bad, the others complete
send_status_step(st, failAt, bad, h) ==
    LET out == IF Len(st.frames) + 1 = failAt THEN bad ELSE OkOutcome
    IN  [w |-> send_status_next(st.w, send_relay_cmd(out)),
         frames |-> Append(st.frames,
                        [h |-> h, cmd |-> next_cmd(st.w),
                         ok |-> out.rc = 0 /\ out.actual_length = RELAY_CMD_LENGTH])]

\* relayboard_send_status run from st.w to its return: the final locals and the frames
RECURSIVE relayboard_send_status(_, _, _, _)
relayboard_send_status(st, failAt, bad, h) ==
    IF st.w.pc = "up" THEN st
    ELSE CHOOSE r \in { relayboard_send_status(n, failAt, bad, h) :
                            n \in {send_status_step(st, failAt, bad, h)} } : TRUE

\* usb_bulk_msg calls that do not complete, for a write taken as one step:
\* at: which call of the commit (0: none), out: how it ends
Failures == { [at |-> 0, out |-> OkOutcome],
              [at |-> 1, out |-> [rc |-> 1, actual_length |-> 0]],
              [at |-> 27, out |-> [rc |-> 0, actual_length |-> RELAY_CMD_LENGTH - 1]] }

\* The runs of relayboard_send_status for every handle, offered buffer and failure
\* (the run does not read dev->relay_states, so it is the same in every state)
CommitRuns ==
    UNION { { [h |-> h, buf |-> buf, f |-> f,
               run |-> relayboard_send_status(
                          [w |-> [IdleWrite EXCEPT !.pc = "head",
                                                   !.status = user_data(buf, beyond),
                                                   !.count = Len(buf),
                                                   !.buf = buf],
                           frames |-> <<>>], f.at, f.out, h)] :
              h \in Handles, f \in Failures, beyond \in HeapBeyond(buf) } :
            buf \in WriteInputs }

\* relayboard_write, lines 273-285, when kzalloc or copy_from_user fails
write_reject(h, fail) ==
    /\ file[h].open
    /\ wr[h].pc = "idle"
    /\ ret' = Ret("write_reject", h, IF fail = "nomem" THEN "ENOMEM" ELSE "EFAULT", 0, <<>>)
    /\ UNCHANGED <<devst, kref, mutex, relay_states, dev_interface, intfdata, minor, hub,
                   file, wr, wire, lastOK, last27, uaf>>
    /\ UNCHANGED clock

\* relayboard_write, lines 266-292, for a caller that nothing overtakes between
\* down and up: everything from line 286 to 290 happens under dev->mutex
relayboard_write(h, buf, f) ==
    /\ file[h].open
    /\ wr[h].pc = "idle"
    /\ LET d == file[h].device IN
        /\ mutex[d] > 0
        /\ Touch(d)
        /\ \E c \in CommitRuns :
            /\ c.h = h /\ c.buf = buf /\ c.f = f
            /\ LET last == [c.run.w EXCEPT !.pc = "tail", !.sub = 1] IN
                relay_states' = [relay_states EXCEPT ![d] = remember_status(@, last, c.run.w)]
            /\ lastOK' = [lastOK EXCEPT ![d] = IF c.run.w.rc = 0 THEN c.run.w.status ELSE @]
            /\ last27' = [last27 EXCEPT ![d] = IF c.run.w.rc = 0 THEN c.run.w.status ELSE @]
            /\ ret' = IF c.run.w.rc # 0 THEN Ret("write", h, "EFAULT", 0, c.run.frames)
                      ELSE Ret("write", h, "OK", c.run.w.count, c.run.frames)
    /\ UNCHANGED <<devst, kref, mutex, dev_interface, intfdata, minor, hub,
                   file, wr, wire>>
    /\ UNCHANGED clock

\* ------------------------------------------------------------ specifications
\* usb_bulk_msg calls that do not complete, for the one-step write
\* Device lifecycle: every handler is one step of its thread, a disconnect is
\* split where it blocks (down) and where it drops the reference
Next ==
    \/ \E match \in BOOLEAN, nomem \in BOOLEAN, regfail \in BOOLEAN :
            Allocated < MaxAttach /\ relayboard_probe(match, nomem, regfail)
    \/ disconnect_enter
    \/ disconnect_down
    \/ disconnect_deregister
    \/ disconnect_put
    \/ \E h \in Handles, nomem \in BOOLEAN : relayboard_open(h, nomem) /\ UNCHANGED clock
    \/ \E h \in Handles : relayboard_close(h) /\ UNCHANGED clock
    \/ \E h \in Handles, fail \in {"nomem", "fault"} : write_reject(h, fail)
    \/ \E h \in Handles, buf \in WriteInputs, f \in Failures : relayboard_write(h, buf, f)
    \/ \E h \in Handles, c \in ReadCalls :
            relayboard_read(h, c.count, c.timestamp, c.fault) /\ UNCHANGED clock

Spec == Init /\ [][Next]_vars

\* One attached board, its writes frame by frame: the state after a successful probe
InitWire ==
    /\ devst = [d \in DevIds |-> IF d = 1 THEN "live" ELSE "none"]
    /\ kref = [d \in DevIds |-> IF d = 1 THEN 1 ELSE 0]
    /\ mutex = [d \in DevIds |-> IF d = 1 THEN 1 ELSE 0]
    /\ relay_states = [d \in DevIds |-> 0]
    /\ dev_interface = [d \in DevIds |-> d = 1]
    /\ intfdata = 1
    /\ minor = TRUE
    /\ hub = [pc |-> "bound", dev |-> 1]
    /\ file = [h \in Handles |-> ClosedFile]
    /\ wr = [h \in Handles |-> IdleWrite]
    /\ wire = [d \in DevIds |-> <<>>]
    /\ ret = NoRet
    /\ lastOK = [d \in DevIds |-> 0]
    /\ last27 = [d \in DevIds |-> 0]
    /\ uaf = FALSE
    /\ jiffies = 0
    /\ since = [h \in Handles |-> <<>>]

NextWire ==
    \/ disconnect_enter
    \/ disconnect_down
    \/ disconnect_deregister
    \/ disconnect_put
    \/ \E h \in Handles, nomem \in BOOLEAN : relayboard_open(h, nomem) /\ UNCHANGED clock
    \/ \E h \in Handles : relayboard_close(h) /\ UNCHANGED clock
    \/ \E h \in Handles, buf \in WriteInputs, fail \in {"none", "nomem", "fault"} :
            write_enter(h, buf, fail)
    \/ \E h \in Handles : write_down(h)
    \/ \E h \in Handles, out \in BulkOutcomes : send_frame(h, out)
    \/ \E h \in Handles : write_up(h)
    \/ \E h \in Handles, c \in ReadCalls :
            relayboard_read(h, c.count, c.timestamp, c.fault) /\ UNCHANGED clock

SpecWire == InitWire /\ [][NextWire]_vars

\* One write of any mask, frame by frame: a board attached, handle 1 open and its
\* write past line 285, whatever an earlier write left in dev->relay_states
CommitStatuses == 0..255
CommitPrevious == {0, 170, 255}

InitCommit ==
    /\ devst = [d \in DevIds |-> IF d = 1 THEN "live" ELSE "none"]
    /\ kref = [d \in DevIds |-> IF d = 1 THEN 2 ELSE 0]
    /\ mutex = [d \in DevIds |-> IF d = 1 THEN 1 ELSE 0]
    /\ \E prev \in CommitPrevious :
        /\ relay_states = [d \in DevIds |-> IF d = 1 THEN prev ELSE 0]
        /\ lastOK = [d \in DevIds |-> IF d = 1 THEN prev ELSE 0]
        /\ last27 = [d \in DevIds |-> IF d = 1 THEN prev ELSE 0]
    /\ dev_interface = [d \in DevIds |-> d = 1]
    /\ intfdata = 1
    /\ minor = TRUE
    /\ hub = [pc |-> "bound", dev |-> 1]
    /\ file = [h \in Handles |-> IF h = 1 THEN [open |-> TRUE, device |-> 1, last_call |-> 0]
                                          ELSE ClosedFile]
    /\ \E status \in CommitStatuses :
        wr = [h \in Handles |-> IF h = 1 THEN [IdleWrite EXCEPT !.pc = "down",
                                                                !.status = status,
                                                                !.count = 1]
                                         ELSE IdleWrite]
    /\ wire = [d \in DevIds |-> <<>>]
    /\ ret = NoRet
    /\ uaf = FALSE
    /\ jiffies = 0
    /\ since = [h \in Handles |-> <<>>]

NextCommit ==
    \/ write_down(1)
    \/ \E out \in BulkOutcomes : send_frame(1, out)
    \/ write_up(1)

SpecCommit == InitCommit /\ [][NextCommit]_vars

\* One attached board and the clock: reads sample jiffies, which counts ticks
\* modulo ULONG_MAX + 1; the board may have been attached at any tick
tick ==
    /\ jiffies' = (jiffies + 1) % (ULONG_MAX + 1)
    /\ since' = [h \in Handles |->
                    IF since[h] = <<>> THEN <<>>
                    ELSE IF since[h][1] > ULONG_MAX THEN since[h]
                    ELSE <<since[h][1] + 1>>]
    /\ ret' = NoRet
    /\ UNCHANGED <<devst, kref, mutex, relay_states, dev_interface, intfdata, minor, hub,
                   file, wr, wire, lastOK, last27, uaf>>

\* relayboard_open, and nothing read through the new file yet
open_now(h, nomem) ==
    /\ relayboard_open(h, nomem)
    /\ since' = [since EXCEPT ![h] = <<>>]
    /\ UNCHANGED jiffies

close_now(h) ==
    /\ relayboard_close(h)
    /\ since' = [since EXCEPT ![h] = <<>>]
    /\ UNCHANGED jiffies

\* relayboard_read into a buffer of 4 bytes, line 340 sampling the clock
read_now(h, fault) ==
    /\ relayboard_read(h, 4, jiffies, fault)
    /\ since' = IF ret'.op = "read" THEN [since EXCEPT ![h] = <<0>>] ELSE since
    /\ UNCHANGED jiffies

InitThrottle ==
    /\ devst = [d \in DevIds |-> IF d = 1 THEN "live" ELSE "none"]
    /\ kref = [d \in DevIds |-> IF d = 1 THEN 1 ELSE 0]
    /\ mutex = [d \in DevIds |-> IF d = 1 THEN 1 ELSE 0]
    /\ relay_states = [d \in DevIds |-> 0]
    /\ dev_interface = [d \in DevIds |-> d = 1]
    /\ intfdata = 1
    /\ minor = TRUE
    /\ hub = [pc |-> "bound", dev |-> 1]
    /\ file = [h \in Handles |-> ClosedFile]
    /\ wr = [h \in Handles |-> IdleWrite]
    /\ wire = [d \in DevIds |-> <<>>]
    /\ ret = NoRet
    /\ lastOK = [d \in DevIds |-> 0]
    /\ last27 = [d \in DevIds |-> 0]
    /\ uaf = FALSE
    /\ jiffies \in 0..ULONG_MAX
    /\ since = [h \in Handles |-> <<>>]

NextThrottle ==
    \/ tick
    \/ \E h \in Handles, nomem \in BOOLEAN : open_now(h, nomem)
    \/ \E h \in Handles : close_now(h)
    \/ \E h \in Handles, fault \in BOOLEAN : read_now(h, fault)

SpecThrottle == InitThrottle /\ [][NextThrottle]_vars

\* One attached board, one open file, and the numbers written to it: decimal
\* strings of one to four digits and of eight, with leading zeros and without
ParseInputs ==
    { <<48>>, <<53>>, <<52, 52>>, <<50, 53, 53>>, <<50, 53, 54>>, <<51, 48, 48>>,
      <<57, 57, 57>>, <<49, 48, 50, 52>>, <<57, 57, 57, 57>>,
      <<48, 48, 48, 48, 48, 51, 48, 48>>, <<49, 50, 51, 52, 53, 54, 55, 56>> }

InitParse ==
    /\ devst = [d \in DevIds |-> IF d = 1 THEN "live" ELSE "none"]
    /\ kref = [d \in DevIds |-> IF d = 1 THEN 2 ELSE 0]
    /\ mutex = [d \in DevIds |-> IF d = 1 THEN 1 ELSE 0]
    /\ relay_states = [d \in DevIds |-> 0]
    /\ dev_interface = [d \in DevIds |-> d = 1]
    /\ intfdata = 1
    /\ minor = TRUE
    /\ hub = [pc |-> "bound", dev |-> 1]
    /\ file = [h \in Handles |-> IF h = 1 THEN [open |-> TRUE, device |-> 1, last_call |-> 0]
                                          ELSE ClosedFile]
    /\ wr = [h \in Handles |-> IdleWrite]
    /\ wire = [d \in DevIds |-> <<>>]
    /\ ret = NoRet
    /\ lastOK = [d \in DevIds |-> 0]
    /\ last27 = [d \in DevIds |-> 0]
    /\ uaf = FALSE
    /\ jiffies = 0
    /\ since = [h \in Handles |-> <<>>]

NextParse ==
    \/ \E buf \in ParseInputs, fail \in {"none", "nomem", "fault"} : write_enter(1, buf, fail)
    \/ write_down(1)
    \/ \E out \in BulkOutcomes : send_frame(1, out)
    \/ write_up(1)
    \/ \E c \in ReadCalls : relayboard_read(1, c.count, c.timestamp, c.fault) /\ UNCHANGED clock

SpecParse == InitParse /\ [][NextParse]_vars

\* A board that is plugged in again: the lifecycle with up to MaxDev probes, files
\* that stay open across them, and the calls that succeed
NextReattach ==
    \/ \E match \in BOOLEAN, nomem \in BOOLEAN, regfail \in BOOLEAN :
            relayboard_probe(match, nomem, regfail)
    \/ disconnect_enter
    \/ disconnect_down
    \/ disconnect_deregister
    \/ disconnect_put
    \/ \E h \in Handles : relayboard_open(h, FALSE) /\ UNCHANGED clock
    \/ \E h \in Handles : relayboard_close(h) /\ UNCHANGED clock
    \/ \E h \in Handles, buf \in WriteInputs, f \in {x \in Failures : x.at = 0} :
            relayboard_write(h, buf, f)
    \/ \E h \in Handles : relayboard_read(h, 4, RELAY_READ_FREQ_MAX, FALSE) /\ UNCHANGED clock

SpecReattach == Init /\ [][NextReattach]_vars

\* One attached board with every file open, and the calls that take dev->mutex:
\* writes frame by frame, reads, the disconnect.  A usb_bulk_msg returns within its
\* timeout, a thread that can go on does, and down() queues its callers in order,
\* so that a caller waiting at down gets the semaphore when it is released again
\* and again
InitLock ==
    /\ devst = [d \in DevIds |-> IF d = 1 THEN "live" ELSE "none"]
    /\ kref = [d \in DevIds |-> IF d = 1 THEN 1 + Cardinality(Handles) ELSE 0]
    /\ mutex = [d \in DevIds |-> IF d = 1 THEN 1 ELSE 0]
    /\ relay_states = [d \in DevIds |-> 0]
    /\ dev_interface = [d \in DevIds |-> d = 1]
    /\ intfdata = 1
    /\ minor = TRUE
    /\ hub = [pc |-> "bound", dev |-> 1]
    /\ file = [h \in Handles |-> [open |-> TRUE, device |-> 1, last_call |-> 0]]
    /\ wr = [h \in Handles |-> IdleWrite]
    /\ wire = [d \in DevIds |-> <<>>]
    /\ ret = NoRet
    /\ lastOK = [d \in DevIds |-> 0]
    /\ last27 = [d \in DevIds |-> 0]
    /\ uaf = FALSE
    /\ jiffies = 0
    /\ since = [h \in Handles |-> <<>>]

NextLock ==
    \/ \E h \in Handles : write_enter(h, <<53>>, "none")
    \/ \E h \in Handles : write_down(h)
    \/ \E h \in Handles, out \in BulkOutcomes : send_frame(h, out)
    \/ \E h \in Handles : write_up(h)
    \/ relayboard_read(1, 4, RELAY_READ_FREQ_MAX, FALSE) /\ UNCHANGED clock
    \/ disconnect_enter
    \/ disconnect_down
    \/ disconnect_deregister
    \/ disconnect_put

FairLock ==
    /\ \A h \in Handles :
        /\ SF_vars(write_down(h))
        /\ WF_vars(\E out \in BulkOutcomes : send_frame(h, out))
        /\ WF_vars(write_up(h))
    /\ SF_vars(disconnect_down)
    /\ WF_vars(disconnect_deregister)
    /\ WF_vars(disconnect_put)

SpecLock == InitLock /\ [][NextLock]_vars /\ FairLock

\* ------------------------------------------------------------------ claims
\* The k-th payload of the 27-frame sequence for mask m, by position
ExpectedCmd(m, k) ==
    IF k = 1 THEN 0
    ELSE IF k = 26 THEN 0
    ELSE IF k = 27 THEN 1
    ELSE LET v == 2 ^ (7 - ((k - 2) \div 3))
             p == ((k - 2) % 3) + 1
         IN  IF (m % (2 * v)) >= v THEN <<32, 40, 32>>[p] ELSE <<0, 8, 0>>[p]

ExpectedFrames(m) == [k \in 1..27 |-> ExpectedCmd(m, k)]

Cmds(w) == [i \in 1..Len(w) |-> w[i].cmd]
AllOk(w) == \A i \in 1..Len(w) : w[i].ok
LastFailed(w) == Len(w) > 0 /\ ~w[Len(w)].ok

\* the device was allocated and line 214 has run for it
Detached(d) == devst[d] = "live" /\ ~dev_interface[d]
Attached(d) == devst[d] = "live" /\ dev_interface[d]

\* C1: a commit in which no send fails hands usb_bulk_msg exactly the 27 payloads
\* 0x00, then per bit from 128 down to 1 0x20 0x28 0x20 (set) or 0x00 0x08 0x00
\* (clear), then 0x00 0x01; the sequence is fixed by the mask alone, whatever
\* dev->relay_states held before
C1_CommitFrames ==
    \A h \in Handles :
        (wr[h].pc = "up" /\ AllOk(wire[file[h].device]))
            => /\ wr[h].rc = 0
               /\ Cmds(wire[file[h].device]) = ExpectedFrames(wr[h].status)

C1_Witness ==
    /\ wr[1].pc = "up"
    /\ wr[1].status = 165
    /\ wr[1].pre = 255
    /\ Len(wire[1]) = 27
    /\ AllOk(wire[1])

\* C2: whenever no write holds the mutex, dev->relay_states is the mask of the last
\* write that returned success (0 if none), and a read that returns data returns
\* the decimal digits of that mask and a newline
C2_ShadowIsLastSuccess ==
    /\ \A d \in DevIds :
        (devst[d] = "live" /\ Committing(d) = {}) => relay_states[d] = lastOK[d]
    /\ (ret.op = "read" /\ ret.val > 0)
            => /\ ret.val = Len(ret.data)
               /\ ret.data[Len(ret.data)] = NL
               /\ \A i \in 1..(Len(ret.data) - 1) : IsDigit(ret.data[i])
               /\ simple_strtoul(ret.data) = lastOK[file[ret.h].device]

C2_Witness ==
    /\ ret.op = "read"
    /\ ret.data = <<52, 52, 10>>
    /\ lastOK[file[ret.h].device] = 44

\* C3: a write whose commit failed at some frame (send error or short transfer)
\* returns -EFAULT and leaves dev->relay_states at the value it had when the write
\* took the mutex
C3_FailedWriteKeepsState ==
    [][ \A h \in Handles :
            (wr[h].pc = "up" /\ LastFailed(wire[file[h].device]) /\ wr'[h].pc = "idle")
                => /\ ret'.op = "write" /\ ret'.h = h /\ ret'.err = "EFAULT"
                   /\ relay_states[file[h].device] = wr[h].pre
                   /\ relay_states'[file[h].device] = wr[h].pre ]_vars

C3_Witness ==
    \E h \in Handles :
        /\ wr[h].pc = "up"
        /\ Len(wire[file[h].device]) = 27
        /\ LastFailed(wire[file[h].device])
        /\ wr[h].status # wr[h].pre

\* C4: within a commit nothing is sent after a frame that failed, and the frames
\* sent are the first k of the mask's 27-frame sequence, each once
C4_AbortAtFirstFailure ==
    \A d \in DevIds :
        /\ \A i \in 1..Len(wire[d]) : ~wire[d][i].ok => i = Len(wire[d])
        /\ \A h \in Committing(d) :
            /\ Len(wire[d]) <= 27
            /\ \A i \in 1..Len(wire[d]) : wire[d][i].cmd = ExpectedCmd(wr[h].status, i)
            /\ LastFailed(wire[d]) => (wr[h].pc = "up" /\ wr[h].rc # 0)

C4_Witness ==
    \E h \in Handles :
        /\ wr[h].pc = "up"
        /\ Len(wire[file[h].device]) = 5
        /\ ~wire[file[h].device][5].ok

\* C5: two writes on one device never both hold the mutex, every frame on the wire
\* since the bus was idle comes from one write, and dev->relay_states is the mask
\* of the commit whose 27th frame completed last
C5_CommitsSerialized ==
    \A d \in DevIds :
        /\ Cardinality(Committing(d)) <= 1
        /\ \A i \in 1..Len(wire[d]) : Committing(d) = {wire[d][i].h}
        /\ devst[d] = "live" => relay_states[d] = last27[d]

C5_Witness ==
    \E h1 \in Handles, h2 \in Handles :
        /\ h1 # h2
        /\ file[h1].device = file[h2].device
        /\ wr[h1].pc = "up" /\ wr[h1].rc = 0
        /\ wr[h1].pre # wr[h1].status
        /\ wr[h2].pc = "down"
        /\ wr[h2].status # wr[h1].status
        /\ lastOK[file[h1].device] = wr[h2].status

\* C6: a write through a handle whose device has been detached fails with -ENODEV,
\* hands no frame to usb_bulk_msg and leaves dev->relay_states as it was
C6_WriteAfterDetachFails ==
    [][ \A h \in Handles :
            (file[h].open /\ Detached(file[h].device) /\ ret'.op = "write" /\ ret'.h = h)
                => /\ ret'.err = "ENODEV"
                   /\ ret'.data = <<>>
                   /\ relay_states' = relay_states ]_vars

\* C7: a read through a handle whose device has been detached, once past the
\* buffer-size and throttle checks, fails with -ENODEV and returns no data
C7_ReadAfterDetachFails ==
    [][ \A h \in Handles :
            (file[h].open /\ Detached(file[h].device) /\ ret'.op = "read" /\ ret'.h = h)
                => /\ ret'.err = "ENODEV"
                   /\ ret'.data = <<>> ]_vars

\* C8: an open never takes a reference on, or creates a handle for, a device that
\* has been detached; while no device is attached every open fails with -ENODEV
\* and creates no handle
C8_OpenAfterDetachFails ==
    [][ ret'.op = "open" =>
            /\ \A d \in DevIds :
                (devst[d] # "none" /\ ~dev_interface[d])
                    => /\ kref'[d] = kref[d]
                       /\ \A h \in Handles :
                            (file'[h].open /\ file'[h].device = d)
                                => (file[h].open /\ file[h].device = d)
            /\ (\A d \in DevIds : ~Attached(d))
                    => (ret'.err = "ENODEV" /\ file' = file /\ kref' = kref) ]_vars

C8_Witness ==
    /\ ret.op = "open"
    /\ ret.err = "ENODEV"
    /\ hub.pc = "unbound"
    /\ \E d \in DevIds : Detached(d) /\ OpenOn(d) # {} /\ kref[d] = Cardinality(OpenOn(d))

\* C9: no usb_relayboard is kfree'd while an open handle refers to it, and no
\* handler ever dereferences a kfree'd usb_relayboard
C9_NoUseAfterFree ==
    /\ ~uaf
    /\ \A h \in Handles : file[h].open => devst[file[h].device] = "live"
    /\ \A d \in DevIds : devst[d] = "freed" => kref[d] = 0

C9_Witness ==
    /\ ret.op = "close"
    /\ hub.pc = "unbound"
    /\ \E d \in DevIds : Detached(d) /\ OpenOn(d) # {} /\ kref[d] = 1

\* the reference the driver holds from probe until line 217
RegRef(d) == IF hub.dev = d THEN 1 ELSE 0

\* C10: a live device's kref is 1 while the driver holds it (probe done, line 217
\* not yet run) plus the number of open handles on it
C10_RefCountIsHolders ==
    \A d \in DevIds :
        devst[d] = "live" => kref[d] = RegRef(d) + Cardinality(OpenOn(d))

\* C11: an open that fails with -ENOMEM (no memory for the file_additions) leaves
\* every device's kref, relay_states and mutex as they were and creates no handle
C11_FailedOpenLeavesNoTrace ==
    [][ (ret'.op = "open" /\ ret'.err = "ENOMEM")
            => /\ kref' = kref
               /\ relay_states' = relay_states
               /\ mutex' = mutex
               /\ file' = file ]_vars

\* a read call returned through handle h in this step
ReadBy(h) == ret'.h = h /\ ret'.op \in {"read", "read_eof"} /\ file[h].open

C13_ThrottlePerHandle ==
    [][ \A a \in Handles :
            ReadBy(a) =>
                /\ \A b \in Handles \ {a} : file'[b] = file[b] /\ since'[b] = since[b]
                /\ (ret'.op = "read") = ~throttled(file[a].last_call, jiffies) ]_vars

\* two handles on one device both read data within the same tick
C13_Witness ==
    \E a \in Handles, b \in Handles :
        /\ a # b
        /\ file[a].open /\ file[b].open /\ file[a].device = file[b].device
        /\ since[a] = <<0>> /\ since[b] = <<0>>
        /\ ret.op = "read" /\ ret.h = b /\ ret.val > 0

\* C14: the first read through a newly opened handle, into a buffer of 4 bytes,
\* gets past the throttle whatever the clock shows
C14_FirstReadYieldsData ==
    [][ \A h \in Handles :
            (ReadBy(h) /\ since[h] = <<>>) => ret'.op = "read" ]_vars

\* C20: time_passed is the distance from last_call to timestamp modulo
\* ULONG_MAX + 1: while less than one turn of the counter went by since a handle's
\* last read, the throttle computes exactly the ticks that went by, also when the
\* counter wrapped in between
C20_TimePassedAcrossWrap ==
    /\ \A h \in Handles :
        (file[h].open /\ since[h] # <<>> /\ since[h][1] <= ULONG_MAX)
            => /\ time_passed(file[h].last_call, jiffies) = since[h][1]
               /\ throttled(file[h].last_call, jiffies) = (since[h][1] < RELAY_READ_FREQ_MAX)
    /\ \A lc \in 0..ULONG_MAX, ts \in 0..ULONG_MAX :
        time_passed(lc, ts) = (ts - lc) % (ULONG_MAX + 1)

\* a read turned away one tick after the handle's last read, the counter having
\* wrapped between the two
C20_Witness ==
    \E h \in Handles :
        /\ ret.op = "read_eof" /\ ret.h = h
        /\ file[h].open
        /\ since[h] = <<RELAY_READ_FREQ_MAX - 1>>
        /\ file[h].last_call > jiffies

\* a write on d is between its first and its last frame
MidCommit(d) ==
    \E h \in Committing(d) :
        /\ wr[h].pc \in {"head", "bit", "tail"}
        /\ Len(wire[d]) >= 1 /\ Len(wire[d]) <= 26

RECURSIVE DecimalValue(_)
DecimalValue(s) ==
    IF Len(s) = 0 THEN 0
    ELSE 10 * DecimalValue(SubSeq(s, 1, Len(s) - 1)) + (s[Len(s)] - Ch0)

IsDecimal(s) == Len(s) > 0 /\ \A i \in 1..Len(s) : IsDigit(s[i])

\* C16: a write of the decimal digits of n sends the mask n mod 256, a write that
\* returns success has stored that mask in dev->relay_states, and a read that
\* returns data returns the decimal digits of dev->relay_states and a newline, 4
\* bytes at most
C16_WriteThenReadRoundTrip ==
    /\ \A h \in Handles :
        (wr[h].pc # "idle" /\ IsDecimal(wr[h].buf))
            => /\ wr[h].status = DecimalValue(wr[h].buf) % 256
               /\ (wr[h].pc = "up" /\ wr[h].rc = 0)
                    => relay_states[file[h].device] = DecimalValue(wr[h].buf) % 256
    /\ (ret.op = "write" /\ ret.err = "OK")
            => relay_states[file[ret.h].device] = lastOK[file[ret.h].device]
    /\ (ret.op = "read" /\ ret.val > 0)
            => /\ ret.data = Append(Digits(relay_states[file[ret.h].device]), NL)
               /\ ret.val = Len(ret.data)
               /\ ret.val <= 4

\* C17: a probe of a matching board that succeeds leaves a new usb_relayboard with
\* relay_states 0 and kref 1, registered with the interface; one whose
\* usb_register_dev fails leaves the new object freed with kref 0, the interface
\* data NULL and no minor, returns the error, and no open gets a handle while the
\* interface is not bound
C17_ProbeRegistersOrUnwinds ==
    [][ /\ ret'.op = "probe" =>
            \E d \in DevIds :
                /\ devst[d] = "none"
                /\ \A e \in DevIds \ {d} :
                        devst'[e] = devst[e] /\ kref'[e] = kref[e]
                /\ file' = file
                /\ ret'.err = "OK"
                        => /\ devst'[d] = "live" /\ relay_states'[d] = 0 /\ kref'[d] = 1
                           /\ dev_interface'[d] /\ intfdata' = d /\ minor'
                /\ ret'.err = "EREGISTER"
                        => /\ devst'[d] = "freed" /\ kref'[d] = 0
                           /\ intfdata' = NULL /\ ~minor' /\ hub'.pc = "unbound"
                /\ ret'.err \in {"ENODEV", "ENOMEM"}
                        => /\ devst' = devst /\ kref' = kref
                           /\ intfdata' = intfdata /\ minor' = minor
        /\ (ret'.op = "open" /\ hub.pc = "unbound")
                => /\ ret'.err = "ENODEV"
                   /\ file' = file /\ kref' = kref ]_vars

\* a probe whose registration failed has just returned
C17_Witness ==
    /\ ret.op = "probe" /\ ret.err = "EREGISTER"
    /\ \E d \in DevIds : devst[d] = "freed" /\ kref[d] = 0
    /\ intfdata = NULL /\ ~minor
    /\ hub.pc = "unbound"

\* C18: a usb_relayboard whose disconnect has run is never registered with an
\* interface again; a later probe registers an object that did not exist before,
\* with relay_states 0 and kref 1; an open file keeps the device it was opened on,
\* and a read or write through it reads and changes the relay_states of that
\* device only
C18_DetachedIsTerminal ==
    [][ /\ \A d \in DevIds :
            (devst[d] # "none" /\ ~dev_interface[d])
                => (~dev_interface'[d] /\ intfdata' # d)
        /\ (intfdata' # NULL /\ intfdata' # intfdata)
                => /\ devst[intfdata'] = "none"
                   /\ relay_states'[intfdata'] = 0
                   /\ kref'[intfdata'] = 1
                   /\ \A e \in DevIds \ {intfdata'} :
                        relay_states'[e] = relay_states[e] /\ kref'[e] = kref[e]
        /\ \A h \in Handles :
            /\ (file[h].open /\ file'[h].open) => file'[h].device = file[h].device
            /\ (ret'.h = h /\ ret'.op \in {"read", "write"} /\ file[h].open)
                => /\ \A e \in DevIds \ {file[h].device} : relay_states'[e] = relay_states[e]
                   /\ (ret'.op = "read" /\ ret'.val > 0)
                        => ret'.data = Append(Digits(relay_states[file[h].device]), NL) ]_vars

\* a file opened before the disconnect reads the old object's state while the
\* board, plugged in again, has a new object with another state
C18_Witness ==
    \E h \in Handles, old \in DevIds, new \in DevIds :
        /\ file[h].open /\ file[h].device = old
        /\ Detached(old)
        /\ old # new /\ Attached(new) /\ intfdata = new
        /\ relay_states[old] = 5 /\ relay_states[new] = 44
        /\ ret.op = "read" /\ ret.h = h /\ ret.data = <<53, 10>>

\* C19: dev->mutex, once taken by a write, a read or the disconnect, is released
\* again, whether the commit succeeded or failed at any frame; a write waiting at
\* line 286 and a disconnect waiting at line 211 get it in the end; and every
\* commit starts at the first frame, a complete one having sent all 27
C19_LockAlwaysReleased ==
    /\ (\E d \in DevIds : devst[d] = "live" /\ mutex[d] = 0)
            ~> (\A d \in DevIds : devst[d] = "live" => mutex[d] = 1)
    /\ \A h \in Handles : (wr[h].pc = "down") ~> (wr[h].pc = "head")
    /\ (hub.pc = "disc_down") ~> (hub.pc = "disc_locked")
    /\ [](\A h \in Handles :
            /\ wr[h].pc = "head" => wire[file[h].device] = <<>>
            /\ (wr[h].pc = "up" /\ wr[h].rc = 0)
                    => Cmds(wire[file[h].device]) = ExpectedFrames(wr[h].status))

\* a write that failed at its 14th frame still holds the mutex while another write
\* and the disconnect wait for it
C19_Witness ==
    \E h1 \in Handles, h2 \in Handles :
        /\ wr[h1].pc = "up" /\ wr[h1].rc # 0
        /\ Len(wire[file[h1].device]) = 14
        /\ wr[h2].pc = "down"
        /\ hub.pc = "disc_down"
        /\ mutex[file[h1].device] = 0

====
